---- MODULE Spec2Model ----
(***************************************************************************)
(* Model of KernelManager (src/src/kernel/KernelManager.ts): one manager   *)
(* instance, the async calls made on it (start, restart, shutdown,         *)
(* execute), the iopub listener routine it starts, and the kernel          *)
(* subprocess, sockets and connection file it talks to.                    *)
(*                                                                         *)
(* Every action is one synchronous segment of the source, from one await   *)
(* to the next.  zeromq's connect() is synchronous and the promise of a    *)
(* DEALER send() settles as soon as the frames are queued, so a send and   *)
(* the receive() that follows it form one segment; so do the grace delay   *)
(* of waitForConnectionFile and the fs.access that precedes it.            *)
(***************************************************************************)
EXTENDS Integers, Sequences, FiniteSets, TLC

\* ---------------------------------------------------------------- bounds
MaxStarts == 2        \* start()/restart() calls made on the manager
MaxExecs == 2         \* execute() calls made on the manager
MaxShutdowns == 2     \* direct shutdown() calls made on the manager
MaxInterrupts == 1    \* interrupt() calls made on the manager
MaxCalls == 3         \* calls made on the manager, of all kinds together
MaxFaults == 1        \* crashes, spawn failures and malformed kernel messages
MaxOutputs == 2       \* outputs a kernel publishes per execution

Null == 0

\* A start() call k spawns process k, names connection file k, creates
\* protocol (session) k and the three sockets k.
Sessions == 1..MaxStarts
ShutdownCalls == 1..MaxShutdowns
InterruptCalls == 1..MaxInterrupts
\* msg_id of the request built by execute() call e (uuidv4: unique).
MsgIds == 1..MaxExecs
\* msg_id of the kernel_info_request built by start() call k.
InfoReq(k) == MaxExecs + k

KernelStates == {"disconnected", "starting", "idle", "busy", "dead"}

VARIABLES
  \* ---- KernelManager fields
  state, process, protocol, connectionFile, connectionInfo,
  shellSocket, iopubSocket, controlSocket,
  executionCount,
  pendingExecutions,   \* keys of the Map
  outputs,             \* outputs array of the record made by execute() e
  resolved,            \* "no", or the broadcast on which resolve() was called
  \* ---- positions of the async calls
  startPc, startAux, shutPc, shutAux, execPc, execSock,
  exitCleanups,        \* cleanup() calls of exit handlers awaiting unlink
  \* ---- subprocesses, files, sockets
  procStatus, fileExists, closedSockets, sockPeer, listener,
  shellOut, kernelGot, kernelCount,
  \* ---- history
  removedBy,           \* what removed the record of execute() e from the Map
  arrived,             \* outputs classified per parent id until its idle
  idleSeen,            \* parent ids whose idle status was handled
  lastReply,           \* the message taken off a socket by the step just taken
  emitted,             \* the events emitted by the step just taken, in order
  faults,              \* crashes, spawn failures, malformed messages so far
  \* ---- interrupt() calls, waitForConnectionFile taken attempt by
  \* ---- attempt, and functions applied to chosen arguments
  intPc,               \* how interrupt() call i ended
  restarting,          \* the start() call in progress that restart() made
  attempts,            \* fs.access attempts made by the poll loop of start() k
  fnArg,               \* the argument a function of the codec is applied to
  fnRes,               \* what it returned
  \* ---- the editor provider: its static field and its
  \* ---- handleSelectEnvironment calls
  kernelManager,       \* the manager the static field references, or Null
  selPc,               \* position of handleSelectEnvironment call c
  selStart             \* the start() call that call c awaits

mgrVars == <<state, process, protocol, connectionFile, connectionInfo,
             shellSocket, iopubSocket, controlSocket, executionCount,
             pendingExecutions, outputs, resolved>>
callVars == <<startPc, startAux, shutPc, shutAux, execPc, execSock, exitCleanups>>
envVars == <<procStatus, fileExists, closedSockets, sockPeer, listener,
             shellOut, kernelGot, kernelCount>>
histVars == <<removedBy, arrived, idleSeen, faults>>
sideVars == <<intPc, restarting, attempts, fnArg, fnRes, kernelManager, selPc, selStart>>
otherSideVars == <<intPc, attempts, fnArg, fnRes, kernelManager, selPc, selStart>>
vars == <<mgrVars, callVars, envVars, histVars, lastReply, emitted, sideVars>>

NoReply == <<>>
\* No function applied: no argument, no result.
NotApplied == <<>>

\* The handleSelectEnvironment calls; the shutdown() that call c makes is
\* the shutdown() call c.
SelectCalls == ShutdownCalls

\* No start() called and no process spawned yet, for the start() calls of
\* the set calls.
InitCalls(calls) ==
  /\ startPc = [k \in calls |-> "none"]
  /\ startAux = [k \in calls |-> Null]
  /\ procStatus = [k \in calls |-> "none"]

\* A manager as its constructor leaves it, nothing spawned or connected,
\* and the editor provider as its static initialisers leave it: no
\* manager, no 'kernel:selectEnvironment' message handled.
InitFields ==
  /\ state = "disconnected"
  /\ process = Null
  /\ protocol = Null
  /\ connectionFile = Null
  /\ connectionInfo = Null
  /\ shellSocket = Null
  /\ iopubSocket = Null
  /\ controlSocket = Null
  /\ executionCount = 0
  /\ pendingExecutions = {}
  /\ outputs = [e \in MsgIds |-> <<>>]
  /\ resolved = [e \in MsgIds |-> "no"]
  /\ shutPc = [s \in ShutdownCalls |-> "none"]
  /\ shutAux = [s \in ShutdownCalls |-> Null]
  /\ execPc = [e \in MsgIds |-> "none"]
  /\ execSock = [e \in MsgIds |-> Null]
  /\ exitCleanups = {}
  /\ fileExists = {}
  /\ closedSockets = {}
  /\ sockPeer = [k \in Sessions |-> Null]
  /\ listener = [k \in Sessions |-> "none"]
  /\ shellOut = [k \in Sessions |-> <<>>]
  /\ kernelGot = [k \in Sessions |-> {}]
  /\ kernelCount = [k \in Sessions |-> 0]
  /\ removedBy = [e \in MsgIds |-> "none"]
  /\ arrived = [e \in MsgIds |-> <<>>]
  /\ idleSeen = {}
  /\ lastReply = NoReply
  /\ emitted = <<>>
  /\ faults = 0
  /\ intPc = [i \in InterruptCalls |-> "none"]
  /\ restarting = Null
  /\ attempts = [k \in Sessions |-> 0]
  /\ fnRes = NotApplied
  /\ kernelManager = Null
  /\ selPc = [c \in SelectCalls |-> "none"]
  /\ selStart = [c \in SelectCalls |-> Null]

InitManager == InitFields /\ InitCalls(Sessions)

Init ==
  /\ InitManager
  /\ fnArg = NotApplied

\* ------------------------------------------------------------- setState
\* setState: assigns the field (the stateChange event is emitted exactly
\* when the value differs).
setState(newState) == state' = newState

\* A setState that emits whether or not the value differs.
StateEvents_always(newState) == << <<"stateChange", newState>> >>

\* setState lines 71-74: the 'stateChange' event, emitted when the value
\* differs.
StateEvents(newState) ==
  IF state # newState THEN << <<"stateChange", newState>> >> ELSE <<>>

\* emit('error', err)
ErrorEvent == <<"error">>

\* ------------------------------------------------------ calls and faults
\* Calls made on the manager so far.
CallsMade ==
  Cardinality({k \in Sessions : startPc[k] # "none"})
  + Cardinality({s \in ShutdownCalls : shutPc[s] # "none"})
  + Cardinality({e \in MsgIds : execPc[e] # "none"})
  + Cardinality({i \in InterruptCalls : intPc[i] # "none"})

MayCall == CallsMade < MaxCalls
MayFail == faults < MaxFaults

\* ------------------------------------------------------- shutdown/cleanup
\* A cleanup() that leaves the Map as it is.
ClearPending_kept(who) == UNCHANGED <<pendingExecutions, removedBy>>

\* pendingExecutions.clear(), with the history of who removed each record.
ClearPending(who) ==
  /\ pendingExecutions' = {}
  /\ removedBy' = [e \in MsgIds |->
                     IF e \in pendingExecutions THEN who ELSE removedBy[e]]

\* The process killed by shutdown().
KillProcess ==
  IF process # Null /\ procStatus[process] \in {"booting", "running"}
  THEN [procStatus EXCEPT ![process] = "killed"]
  ELSE procStatus

\* A shutdown() that closes the iopub socket without dropping the field.
ShutdownSync_keepsIopub ==
  /\ setState("dead")
  /\ closedSockets' = closedSockets \cup
                        ({shellSocket, iopubSocket, controlSocket} \ {Null})
  /\ listener' = [k \in Sessions |->
                    IF k = iopubSocket /\ listener[k] = "running"
                    THEN "stopped" ELSE listener[k]]
  /\ shellSocket' = Null
  /\ iopubSocket' = iopubSocket
  /\ controlSocket' = Null
  /\ procStatus' = KillProcess
  /\ process' = Null

\* The synchronous part of shutdown(): state, sockets, process.
ShutdownSync ==
  /\ setState("dead")
  /\ closedSockets' = closedSockets \cup
                        ({shellSocket, iopubSocket, controlSocket} \ {Null})
  /\ listener' = [k \in Sessions |->
                    IF k = iopubSocket /\ listener[k] = "running"
                    THEN "stopped" ELSE listener[k]]
  /\ shellSocket' = Null
  /\ iopubSocket' = Null
  /\ controlSocket' = Null
  /\ procStatus' = KillProcess
  /\ process' = Null

\* cleanup() up to its await: with a connection file it suspends on
\* fs.unlink before touching any field; without one it runs to its end.
CleanupBegin(who) ==
  IF connectionFile # Null
  THEN UNCHANGED <<connectionFile, connectionInfo, protocol,
                   pendingExecutions, removedBy>>
  ELSE /\ connectionInfo' = Null
       /\ protocol' = Null
       /\ ClearPending(who)
       /\ UNCHANGED connectionFile

\* cleanup() after fs.unlink(path) settled: lines 361-363.
CleanupTailRest(path, who) ==
  /\ fileExists' = fileExists \ {path}
  /\ connectionInfo' = Null
  /\ protocol' = Null
  /\ ClearPending(who)

\* cleanup() after fs.unlink(path) settled: lines 359-363.
CleanupTail(path, who) ==
  /\ connectionFile' = Null
  /\ CleanupTailRest(path, who)

\* shutdown() from its call to the await inside cleanup().
ShutdownBegin ==
  /\ ShutdownSync
  /\ CleanupBegin("shutdown")

\* What the suspended shutdown() does when it resumes; aux is the path
\* cleanup() was unlinking, Null when cleanup() had already finished.
ShutdownResumeRest(aux) ==
  IF aux # Null
  THEN CleanupTailRest(aux, "shutdown")
  ELSE UNCHANGED <<fileExists, connectionInfo, protocol,
                   pendingExecutions, removedBy>>

ShutdownResume(aux) ==
  /\ ShutdownResumeRest(aux)
  /\ connectionFile' = IF aux # Null THEN Null ELSE connectionFile

\* ------------------------------------------------------------ shutdown()
Shutdown(s) ==
  /\ shutPc[s] = "none"
  /\ \A t \in ShutdownCalls : t < s => shutPc[t] # "none"
  /\ MayCall
  /\ ShutdownBegin
  /\ shutPc' = [shutPc EXCEPT ![s] = "cleanup"]
  /\ shutAux' = [shutAux EXCEPT ![s] = connectionFile]
  /\ lastReply' = NoReply
  /\ emitted' = StateEvents("dead")
  /\ UNCHANGED sideVars
  /\ UNCHANGED <<executionCount, outputs, resolved,
                 startPc, startAux, execPc, execSock, exitCleanups,
                 fileExists, sockPeer, shellOut, kernelGot, kernelCount,
                 arrived, idleSeen, faults>>

ShutdownReturn(s) ==
  /\ shutPc[s] = "cleanup"
  /\ ShutdownResume(shutAux[s])
  /\ shutPc' = [shutPc EXCEPT ![s] = "done"]
  /\ shutAux' = [shutAux EXCEPT ![s] = Null]
  /\ lastReply' = NoReply
  /\ emitted' = <<>>
  /\ UNCHANGED sideVars
  /\ UNCHANGED <<state, process, shellSocket, iopubSocket, controlSocket,
                 executionCount, outputs, resolved,
                 startPc, startAux, execPc, execSock, exitCleanups,
                 procStatus, closedSockets, sockPeer, listener,
                 shellOut, kernelGot, kernelCount, arrived, idleSeen, faults>>

\* --------------------------------------------------------------- start()
CanCallStart(k) ==
  /\ MayCall
  /\ startPc[k] = "none"
  /\ \A j \in Sessions : startPc[j] \in {"none", "done", "failed"}
  /\ \A j \in Sessions : j < k => startPc[j] # "none"

\* start() lines 82-115: setState('starting'), connection file, spawn,
\* handlers, then the await in waitForConnectionFile.  spawned tells
\* whether the executable could be spawned.
StartBody(k, spawned) ==
  /\ spawned \/ MayFail
  /\ faults' = IF spawned THEN faults ELSE faults + 1
  /\ setState("starting")
  /\ connectionFile' = k
  /\ process' = k
  /\ procStatus' = [procStatus EXCEPT ![k] = IF spawned THEN "booting" ELSE "spawnfail"]
  /\ startPc' = [startPc EXCEPT ![k] = "waitFile"]
  /\ startAux' = [startAux EXCEPT ![k] = Null]

\* The shutdown() a start()/restart() runs first.
StartShutdown(k, pc) ==
  /\ ShutdownBegin
  /\ startPc' = [startPc EXCEPT ![k] = pc]
  /\ startAux' = [startAux EXCEPT ![k] = connectionFile]

\* start() called (directly, or by restart() after its shutdown): with a
\* process it first awaits shutdown().
StartEntered(k) ==
  /\ lastReply' = NoReply
  /\ emitted' = (IF process # Null THEN StateEvents("dead") ELSE StateEvents("starting"))
  /\ IF process # Null
     THEN /\ StartShutdown(k, "preShutdown")
          /\ UNCHANGED <<executionCount, outputs, resolved,
                         shutPc, shutAux, execPc, execSock, exitCleanups,
                         fileExists, sockPeer, shellOut, kernelGot, kernelCount,
                         arrived, idleSeen, faults>>
     ELSE /\ \E spawned \in BOOLEAN : StartBody(k, spawned)
          /\ UNCHANGED <<protocol, connectionInfo,
                         shellSocket, iopubSocket, controlSocket,
                         executionCount, pendingExecutions, outputs, resolved,
                         shutPc, shutAux, execPc, execSock, exitCleanups,
                         fileExists, closedSockets, sockPeer, listener,
                         shellOut, kernelGot, kernelCount,
                         removedBy, arrived, idleSeen>>

\* start() called by the manager's own caller or by restart().
StartCalled(k) ==
  /\ StartEntered(k)
  /\ UNCHANGED sideVars

Start(k) ==
  /\ CanCallStart(k) \/ startPc[k] = "enter"
  /\ StartCalled(k)

\* restart() called: awaits shutdown(), then calls start().
RestartCalled(k) ==
  /\ StartShutdown(k, "restartShutdown")
  /\ restarting' = k
  /\ lastReply' = NoReply
  /\ emitted' = StateEvents("dead")
  /\ UNCHANGED otherSideVars
  /\ UNCHANGED <<executionCount, outputs, resolved,
                 shutPc, shutAux, execPc, execSock, exitCleanups,
                 fileExists, sockPeer, shellOut, kernelGot, kernelCount,
                 arrived, idleSeen, faults>>

Restart(k) ==
  /\ CanCallStart(k)
  /\ RestartCalled(k)

\* The shutdown() awaited by restart() returns; restart() goes on to call
\* start().
RestartShutdownReturn(k) ==
  /\ startPc[k] = "restartShutdown"
  /\ ShutdownResume(startAux[k])
  /\ startPc' = [startPc EXCEPT ![k] = "enter"]
  /\ startAux' = [startAux EXCEPT ![k] = Null]
  /\ lastReply' = NoReply
  /\ emitted' = <<>>
  /\ UNCHANGED sideVars
  /\ UNCHANGED <<state, process, shellSocket, iopubSocket, controlSocket,
                 executionCount, outputs, resolved,
                 shutPc, shutAux, execPc, execSock, exitCleanups,
                 procStatus, closedSockets, sockPeer, listener,
                 shellOut, kernelGot, kernelCount, arrived, idleSeen, faults>>

\* The shutdown() awaited by start() returns; start() goes on with line 82.
StartShutdownReturn(k) ==
  /\ startPc[k] = "preShutdown"
  /\ ShutdownResumeRest(startAux[k])
  /\ \E spawned \in BOOLEAN : StartBody(k, spawned)
  /\ lastReply' = NoReply
  /\ emitted' = StateEvents("starting")
  /\ UNCHANGED sideVars
  /\ UNCHANGED <<shellSocket, iopubSocket, controlSocket,
                 executionCount, outputs, resolved,
                 shutPc, shutAux, execPc, execSock, exitCleanups,
                 closedSockets, sockPeer, listener,
                 shellOut, kernelGot, kernelCount, arrived, idleSeen>>

\* waitForConnectionFile: an fs.access attempt succeeds (the file of the
\* path now in this.connectionFile exists); after the grace delay
\* fs.readFile is issued on that path.
StartPollFound(k) ==
  /\ startPc[k] = "waitFile"
  /\ connectionFile # Null
  /\ connectionFile \in fileExists
  /\ startPc' = [startPc EXCEPT ![k] = "readFile"]
  /\ startAux' = [startAux EXCEPT ![k] = connectionFile]
  /\ lastReply' = NoReply
  /\ emitted' = <<>>
  /\ UNCHANGED sideVars
  /\ UNCHANGED <<mgrVars, shutPc, shutAux, execPc, execSock,
                 exitCleanups, envVars, histVars>>

\* waitForConnectionFile: the attempts are used up while fs.access keeps
\* failing (no file, or this.connectionFile nulled by a cleanup): throws.
StartPollTimeout(k) ==
  /\ startPc[k] = "waitFile"
  /\ connectionFile = Null \/ connectionFile \notin fileExists
  /\ startPc' = [startPc EXCEPT ![k] = "failed"]
  /\ lastReply' = NoReply
  /\ emitted' = <<>>
  /\ restarting' = Null
  /\ UNCHANGED otherSideVars
  /\ UNCHANGED <<mgrVars, startAux, shutPc, shutAux, execPc, execSock,
                 exitCleanups, envVars, histVars>>

\* fs.readFile rejects: the file was unlinked meanwhile.
StartReadFail(k) ==
  /\ startPc[k] = "readFile"
  /\ startAux[k] \notin fileExists
  /\ startPc' = [startPc EXCEPT ![k] = "failed"]
  /\ startAux' = [startAux EXCEPT ![k] = Null]
  /\ lastReply' = NoReply
  /\ emitted' = <<>>
  /\ restarting' = Null
  /\ UNCHANGED otherSideVars
  /\ UNCHANGED <<mgrVars, shutPc, shutAux, execPc, execSock,
                 exitCleanups, envVars, histVars>>

\* start() lines 118-131 up to the await in requestKernelInfo: connection
\* info, protocol, connectSockets, startIopubListener, and the
\* kernel_info_request sent on the new shell socket.
StartReadDone(k) ==
  /\ startPc[k] = "readFile"
  /\ startAux[k] \in fileExists
  /\ connectionInfo' = startAux[k]
  /\ protocol' = k
  /\ shellSocket' = k
  /\ iopubSocket' = k
  /\ controlSocket' = k
  /\ sockPeer' = [sockPeer EXCEPT ![k] = startAux[k]]
  /\ listener' = [listener EXCEPT ![k] = "running"]
  /\ shellOut' = [shellOut EXCEPT ![k] = <<InfoReq(k)>>]
  /\ kernelGot' = IF procStatus[startAux[k]] = "running"
                  THEN [kernelGot EXCEPT ![startAux[k]] = @ \cup {InfoReq(k)}]
                  ELSE kernelGot
  /\ startPc' = [startPc EXCEPT ![k] = "recvInfo"]
  /\ startAux' = [startAux EXCEPT ![k] = Null]
  /\ lastReply' = NoReply
  /\ emitted' = <<>>
  /\ UNCHANGED sideVars
  /\ UNCHANGED <<state, process, connectionFile, executionCount,
                 pendingExecutions, outputs, resolved,
                 shutPc, shutAux, execPc, execSock, exitCleanups,
                 procStatus, fileExists, closedSockets, kernelCount, histVars>>

\* ---------------------------------------------------------- shell replies
\* What the kernel puts on the shell socket in answer to a request: the
\* proper reply, a message of another type, frames without the delimiter,
\* or frames whose JSON does not parse.
ReplyKinds == {"reply", "wrongtype", "nodelim", "badjson"}

ReplyType(req, kind) ==
  IF kind = "reply"
  THEN (IF req \in MsgIds THEN "execute_reply" ELSE "kernel_info_reply")
  ELSE IF kind = "wrongtype" THEN "other" ELSE kind

\* parseMessage on received frames: null without delimiter, a throw from
\* JSON.parse, a message otherwise.
ParseOutcome(type) ==
  IF type = "nodelim" THEN "null"
  ELSE IF type = "badjson" THEN "throw"
  ELSE "msg"

\* The kernel at the other end of shell socket s has an answer for the
\* oldest request outstanding on it.
ReplyReady(s) ==
  /\ s # Null
  /\ s \notin closedSockets
  /\ shellOut[s] # <<>>
  /\ Head(shellOut[s]) \in kernelGot[sockPeer[s]]

\* The kernel counts the execute requests it answers.
CountAfter(s, kind) ==
  IF kind = "reply" /\ Head(shellOut[s]) \in MsgIds
  THEN kernelCount[sockPeer[s]] + 1
  ELSE kernelCount[sockPeer[s]]

\* <<consumer, its call, msg_type, execution_count>> of the reply taken
\* from socket s.
Reply(who, id, s, kind) ==
  <<who, id, ReplyType(Head(shellOut[s]), kind),
    IF ReplyType(Head(shellOut[s]), kind) = "execute_reply"
    THEN CountAfter(s, kind) ELSE Null>>

\* Appended to the reply taken by a start() that restart() called.
CalledBy(who) ==
  IF who = "start" /\ restarting # Null THEN <<"restart">> ELSE <<>>

TakeReply(who, id, s, kind) ==
  /\ kind = "reply" \/ MayFail
  /\ faults' = IF kind = "reply" THEN faults ELSE faults + 1
  /\ shellOut' = [shellOut EXCEPT ![s] = Tail(@)]
  /\ kernelCount' = [kernelCount EXCEPT ![sockPeer[s]] = CountAfter(s, kind)]
  /\ lastReply' = Reply(who, id, s, kind) \o CalledBy(who)
  /\ restarting' = (IF who = "start" THEN Null ELSE restarting)
  /\ UNCHANGED otherSideVars

\* requestKernelInfo lines 270-277, whether it returns normally: the reply
\* is parsed with the protocol now in this.protocol (a null protocol and
\* unparsable JSON throw); a null parse result and a message of any type
\* are both passed over.
KernelInfoReturns(type) ==
  /\ protocol # Null
  /\ ParseOutcome(type) # "throw"

\* requestKernelInfo lines 274-276: emit('kernelInfo', content).
KernelInfoEvents(type) ==
  IF ParseOutcome(type) = "msg" /\ type = "kernel_info_reply"
  THEN << <<"kernelInfo">> >> ELSE <<>>

\* requestKernelInfo from its receive() on, and start() line 133.
StartRecvReply(k, kind) ==
  /\ startPc[k] = "recvInfo"
  /\ ReplyReady(k)
  /\ TakeReply("start", k, k, kind)
  /\ IF KernelInfoReturns(ReplyType(Head(shellOut[k]), kind))
     THEN /\ startPc' = [startPc EXCEPT ![k] = "done"]
          /\ setState("idle")
          /\ emitted' = KernelInfoEvents(ReplyType(Head(shellOut[k]), kind))
                           \o StateEvents("idle")
     ELSE /\ startPc' = [startPc EXCEPT ![k] = "failed"]
          /\ emitted' = <<>>
          /\ UNCHANGED state
  /\ UNCHANGED <<process, protocol, connectionFile, connectionInfo,
                 shellSocket, iopubSocket, controlSocket, executionCount,
                 pendingExecutions, outputs, resolved,
                 startAux, shutPc, shutAux, execPc, execSock, exitCleanups,
                 procStatus, fileExists, closedSockets, sockPeer, listener,
                 kernelGot, removedBy, arrived, idleSeen>>

\* The pending receive() of requestKernelInfo rejects: socket closed.
StartRecvClosed(k) ==
  /\ startPc[k] = "recvInfo"
  /\ k \in closedSockets
  /\ startPc' = [startPc EXCEPT ![k] = "failed"]
  /\ lastReply' = NoReply
  /\ emitted' = <<>>
  /\ restarting' = Null
  /\ UNCHANGED otherSideVars
  /\ UNCHANGED <<mgrVars, startAux, shutPc, shutAux, execPc, execSock,
                 exitCleanups, envVars, histVars>>

\* ------------------------------------------------------ subprocess events
\* The kernel writes its connection file and starts serving.
KernelWriteFile(f) ==
  /\ procStatus[f] = "booting"
  /\ procStatus' = [procStatus EXCEPT ![f] = "running"]
  /\ fileExists' = fileExists \cup {f}
  /\ lastReply' = NoReply
  /\ emitted' = <<>>
  /\ UNCHANGED sideVars
  /\ UNCHANGED <<mgrVars, callVars, closedSockets, sockPeer, listener,
                 shellOut, kernelGot, kernelCount, histVars>>

\* process 'exit' handler (lines 104-107): setState('dead'); cleanup().
\* cleanup() is not awaited: with a connection file it stays suspended on
\* fs.unlink and finishes in ExitCleanupTail.
ProcExit(f) ==
  /\ procStatus[f] \in {"booting", "running", "killed"}
  /\ procStatus[f] = "killed" \/ MayFail
  /\ faults' = IF procStatus[f] = "killed" THEN faults ELSE faults + 1
  /\ procStatus' = [procStatus EXCEPT ![f] = "exited"]
  /\ setState("dead")
  /\ CleanupBegin("exit")
  /\ exitCleanups' = IF connectionFile # Null
                     THEN exitCleanups \cup {connectionFile}
                     ELSE exitCleanups
  /\ lastReply' = NoReply
  /\ emitted' = StateEvents("dead")
  /\ UNCHANGED sideVars
  /\ UNCHANGED <<process, shellSocket, iopubSocket, controlSocket,
                 executionCount, outputs, resolved,
                 startPc, startAux, shutPc, shutAux, execPc, execSock,
                 fileExists, closedSockets, sockPeer, listener,
                 shellOut, kernelGot, kernelCount, arrived, idleSeen>>

ExitCleanupTail(path) ==
  /\ path \in exitCleanups
  /\ exitCleanups' = exitCleanups \ {path}
  /\ CleanupTail(path, "exit")
  /\ lastReply' = NoReply
  /\ emitted' = <<>>
  /\ UNCHANGED sideVars
  /\ UNCHANGED <<state, process, shellSocket, iopubSocket, controlSocket,
                 executionCount, outputs, resolved,
                 startPc, startAux, shutPc, shutAux, execPc, execSock,
                 procStatus, closedSockets, sockPeer, listener,
                 shellOut, kernelGot, kernelCount, arrived, idleSeen, faults>>

\* process 'error' handler (lines 109-112), fired when the spawn failed:
\* setState('dead'); emit('error').
ProcError(f) ==
  /\ procStatus[f] = "spawnfail"
  /\ procStatus' = [procStatus EXCEPT ![f] = "failed"]
  /\ setState("dead")
  /\ lastReply' = NoReply
  /\ emitted' = StateEvents("dead") \o <<ErrorEvent>>
  /\ UNCHANGED sideVars
  /\ UNCHANGED <<process, protocol, connectionFile, connectionInfo,
                 shellSocket, iopubSocket, controlSocket, executionCount,
                 pendingExecutions, outputs, resolved, callVars,
                 fileExists, closedSockets, sockPeer, listener,
                 shellOut, kernelGot, kernelCount, histVars>>

\* -------------------------------------------------------------- execute()
\* Some call is suspended in receive() on shell socket s; zeromq rejects a
\* second receive() on the same socket (EBUSY).
ReaderOn(s) ==
  \/ \E e \in MsgIds : execPc[e] = "recv" /\ execSock[e] = s
  \/ s \in Sessions /\ startPc[s] = "recvInfo"

CanCallExecute(e) ==
  /\ MayCall
  /\ execPc[e] = "none"
  /\ \A j \in MsgIds : j < e => execPc[j] # "none"

\* execute() lines 280-282: no shell socket or no protocol.
ExecuteNotStarted(e) ==
  /\ CanCallExecute(e)
  /\ shellSocket = Null \/ protocol = Null
  /\ execPc' = [execPc EXCEPT ![e] = "thrown"]
  /\ lastReply' = NoReply
  /\ emitted' = <<>>
  /\ UNCHANGED sideVars
  /\ UNCHANGED <<mgrVars, startPc, startAux, shutPc, shutAux, execSock,
                 exitCleanups, envVars, histVars>>

\* An execute() that sends its request without registering a record.
Register_dropped(e) == pendingExecutions

\* execute() lines 289-292: the record of the call is put in the Map.
Register(e) == pendingExecutions \cup {e}

\* execute() lines 284-298: the request is built, its record registered,
\* the frames sent on the shell socket, and receive() called.
Execute(e) ==
  /\ CanCallExecute(e)
  /\ shellSocket # Null /\ protocol # Null
  /\ pendingExecutions' = Register(e)
  /\ shellOut' = [shellOut EXCEPT ![shellSocket] = Append(@, e)]
  /\ kernelGot' = IF procStatus[sockPeer[shellSocket]] = "running"
                  THEN [kernelGot EXCEPT ![sockPeer[shellSocket]] = @ \cup {e}]
                  ELSE kernelGot
  /\ IF ReaderOn(shellSocket)
     THEN /\ execPc' = [execPc EXCEPT ![e] = "thrown"]
          /\ UNCHANGED execSock
     ELSE /\ execPc' = [execPc EXCEPT ![e] = "recv"]
          /\ execSock' = [execSock EXCEPT ![e] = shellSocket]
  /\ lastReply' = NoReply
  /\ emitted' = <<>>
  /\ UNCHANGED sideVars
  /\ UNCHANGED <<state, process, protocol, connectionFile, connectionInfo,
                 shellSocket, iopubSocket, controlSocket, executionCount,
                 outputs, resolved,
                 startPc, startAux, shutPc, shutAux, exitCleanups,
                 procStatus, fileExists, closedSockets, sockPeer, listener,
                 kernelCount, histVars>>

\* execute() lines 298-300, whether they complete: the shell reply is
\* parsed with the protocol now in this.protocol and the result dropped.
ExecuteReplyParsed(type) ==
  /\ protocol # Null
  /\ ParseOutcome(type) # "throw"

\* execute() lines 298-303: the reply is consumed; the call then awaits
\* its promise.
ExecuteRecvReply(e, kind) ==
  /\ execPc[e] = "recv"
  /\ ReplyReady(execSock[e])
  /\ TakeReply("execute", e, execSock[e], kind)
  /\ emitted' = <<>>
  /\ execPc' = [execPc EXCEPT ![e] =
                  IF ExecuteReplyParsed(ReplyType(Head(shellOut[execSock[e]]), kind))
                  THEN "await" ELSE "thrown"]
  /\ UNCHANGED <<mgrVars, startPc, startAux, shutPc, shutAux, execSock,
                 exitCleanups, procStatus, fileExists, closedSockets, sockPeer,
                 listener, kernelGot, removedBy, arrived, idleSeen>>

\* The pending receive() of execute() rejects: socket closed.
ExecuteRecvClosed(e) ==
  /\ execPc[e] = "recv"
  /\ execSock[e] \in closedSockets
  /\ execPc' = [execPc EXCEPT ![e] = "thrown"]
  /\ lastReply' = NoReply
  /\ emitted' = <<>>
  /\ UNCHANGED sideVars
  /\ UNCHANGED <<mgrVars, startPc, startAux, shutPc, shutAux, execSock,
                 exitCleanups, envVars, histVars>>

\* execute() lines 303-305: the promise is resolved; return {msgId, outputs}.
ExecuteReturn(e) ==
  /\ execPc[e] = "await"
  /\ resolved[e] # "no"
  /\ execPc' = [execPc EXCEPT ![e] = "returned"]
  /\ lastReply' = NoReply
  /\ emitted' = <<>>
  /\ UNCHANGED sideVars
  /\ UNCHANGED <<mgrVars, startPc, startAux, shutPc, shutAux, execSock,
                 exitCleanups, envVars, histVars>>

\* ------------------------------------------------------------ interrupt()
\* this.process.pid: undefined when the executable could not be spawned.
HasPid(p) == procStatus[p] \notin {"spawnfail", "failed"}

\* An interrupt() that waits for the interrupt_reply on the control socket.
InterruptOutcome_awaitsReply ==
  IF process = Null \/ ~HasPid(process) THEN "nothing done"
  ELSE IF procStatus[process] = "exited" THEN "thrown"
  ELSE "awaitReply"

\* interrupt() lines 309-319, how the call ends: without a process or a
\* pid it does nothing and returns; process.kill(pid, 'SIGINT') throws
\* when the process is gone; otherwise the signal is sent and, with a
\* control socket and a protocol, an interrupt_request.
InterruptOutcome ==
  IF process = Null \/ ~HasPid(process) THEN "nothing done"
  ELSE IF procStatus[process] = "exited" THEN "thrown"
  ELSE "sent"

CanCallInterrupt(i) ==
  /\ MayCall
  /\ intPc[i] = "none"
  /\ \A j \in InterruptCalls : j < i => intPc[j] # "none"

Interrupt(i) ==
  /\ CanCallInterrupt(i)
  /\ intPc' = [intPc EXCEPT ![i] = InterruptOutcome]
  /\ lastReply' = NoReply
  /\ emitted' = <<>>
  /\ UNCHANGED <<mgrVars, callVars, envVars, histVars,
                 restarting, attempts, fnArg, fnRes, kernelManager, selPc, selStart>>

\* -------------------------------------------------------- iopub listener
\* A broadcast: header.msg_type, parent_header.msg_id, and the content
\* fields the handler reads (execution_state; name and text; data, a
\* function from the representations present to their strings, and
\* whether its application/json string is JSON text; execution_count).
\* A string is <<>> when empty and a non-empty tuple otherwise.
Msg(type, parent, es, name, text, data, jsonOk, count) ==
  [type |-> type, parent |-> parent, execution_state |-> es, name |-> name,
   text |-> text, data |-> data, jsonOk |-> jsonOk, count |-> count]

\* content.data of a message that has none.
NoData == <<>>

\* The i-th output a kernel publishes for a request: it runs code that
\* prints and evaluates in turn.
KernelOutput(p, i) ==
  IF i % 2 = 1
  THEN Msg("stream", p, "", "stdout", <<p, i>>, NoData, TRUE, 0)
  ELSE Msg("execute_result", p, "", "", <<>>, "text/plain" :> <<p, i>>, TRUE, 0)

\* Broadcasts a kernel publishes with parent header p: status messages
\* and its next output for p.
BroadcastsOf(p) ==
  { Msg("status", p, "busy", "", <<>>, NoData, TRUE, 0),
    Msg("status", p, "idle", "", <<>>, NoData, TRUE, 0) }
  \cup IF p \in MsgIds
       THEN (IF Len(arrived[p]) < MaxOutputs
             THEN {KernelOutput(p, Len(arrived[p]) + 1)} ELSE {})
       ELSE {KernelOutput(p, 1)}

\* Malformed or out-of-protocol broadcasts: frame sequences parseMessage
\* does not turn into a message, a display_data whose application/json is
\* not JSON, and an execute_reply published on iopub; and, in place of a
\* broadcast, a failure of the socket that makes the iteration reject.
BadBroadcasts ==
  { Msg("receive-error", Null, "", "", <<>>, NoData, TRUE, 0),
    Msg("nodelim", Null, "", "", <<>>, NoData, TRUE, 0),
    Msg("badjson", Null, "", "", <<>>, NoData, TRUE, 0),
    Msg("display_data", Null, "", "", <<>>,
        "application/json" :> <<Null, 1>> @@ "text/plain" :> <<Null, 1>>, FALSE, 0),
    Msg("execute_reply", Null, "", "", <<>>, NoData, TRUE, 1) }

\* What arrives on iopub socket s: parents are absent or requests the
\* kernel at the other end has received.
Broadcasts(s) ==
  IF sockPeer[s] = Null THEN {}
  ELSE UNION {BroadcastsOf(p) : p \in {Null} \cup kernelGot[sockPeer[s]]}
         \cup BadBroadcasts

\* KernelOutput {type, content, mimeType}
Output(type, content, mimeType) ==
  [type |-> type, content |-> content, mimeType |-> mimeType]

isStatus(msg) == msg.type = "status"
isStream(msg) == msg.type = "stream"
isDisplayData(msg) == msg.type \in {"display_data", "execute_result"}
isError(msg) == msg.type = "error"
isExecuteReply(msg) == msg.type = "execute_reply"

\* if (data[mime]): the representation is present and its string is not
\* empty.
Truthy(data, mime) == mime \in DOMAIN data /\ data[mime] # <<>>

\* JSON.stringify(JSON.parse(text), null, 2): the text re-printed.
Reprinted(text) == <<"reprinted", text>>

\* handleIopubMessage lines 235-249: the first representation that passes
\* its test, in priority order, gives the one output; none gives none.
DisplayOutputs(data) ==
  IF Truthy(data, "image/png")
  THEN <<Output("display", data["image/png"], "image/png")>>
  ELSE IF Truthy(data, "image/jpeg")
  THEN <<Output("display", data["image/jpeg"], "image/jpeg")>>
  ELSE IF Truthy(data, "text/html")
  THEN <<Output("display", data["text/html"], "text/html")>>
  ELSE IF Truthy(data, "application/json")
  THEN <<Output("display", Reprinted(data["application/json"]), "application/json")>>
  ELSE IF Truthy(data, "text/plain")
  THEN <<Output("result", data["text/plain"], "")>>
  ELSE <<>>

\* The application/json branch is the one taken and JSON.parse throws.
DisplayThrows(msg) ==
  /\ isDisplayData(msg)
  /\ DisplayOutputs(msg.data) # <<>>
  /\ DisplayOutputs(msg.data)[1].mimeType = "application/json"
  /\ ~msg.jsonOk

\* handleIopubMessage lines 224-253: the outputs passed to emitOutput.
Classify(msg) ==
  IF isStream(msg)
  THEN <<Output(IF msg.name = "stdout" THEN "stdout" ELSE "stderr", msg.text, "")>>
  ELSE IF isDisplayData(msg) THEN DisplayOutputs(msg.data)
  ELSE IF isError(msg) THEN <<Output("error", msg.text, "")>>
  ELSE <<>>

\* An emitOutput that pushes the output to every registered record.
EmitTargets_allPending(parentMsgId) == pendingExecutions

\* emitOutput lines 217-222: the records the output is pushed to.
EmitTargets(parentMsgId) ==
  IF parentMsgId # Null /\ parentMsgId \in pendingExecutions
  THEN {parentMsgId} ELSE {}

\* A status handler that resolves every registered record on any idle.
StatusTargets_anyParent(msg) ==
  IF msg.execution_state = "idle" THEN pendingExecutions ELSE {}

\* handleIopubMessage lines 200-212: the records resolved and deleted.
StatusTargets(msg) ==
  IF msg.execution_state = "idle"
     /\ msg.parent # Null /\ msg.parent \in pendingExecutions
  THEN {msg.parent} ELSE {}

\* handleIopubMessage lines 200-205: the state a status message sets.
StatusState(msg) ==
  IF msg.execution_state = "busy" THEN "busy"
  ELSE IF msg.execution_state = "idle" THEN "idle"
  ELSE state

\* handleIopubMessage lines 254-258: the counter after an execute_reply.
CountFrom(msg) ==
  IF msg.count # 0 THEN msg.count ELSE executionCount

\* The broadcast a resolve() call is made on.
Cause(msg) == <<msg.type, msg.execution_state, msg.parent>>

\* handleIopubMessage, for a message that does not make it throw.
handleIopubMessage(msg) ==
  IF isStatus(msg)
  THEN /\ setState(StatusState(msg))
       /\ resolved' = [e \in MsgIds |->
                         IF e \in StatusTargets(msg) THEN Cause(msg) ELSE resolved[e]]
       /\ pendingExecutions' = pendingExecutions \ StatusTargets(msg)
       /\ removedBy' = [e \in MsgIds |->
                          IF e \in StatusTargets(msg) THEN "idle" ELSE removedBy[e]]
       /\ UNCHANGED <<outputs, executionCount>>
  ELSE /\ outputs' = [e \in MsgIds |->
                        IF e \in EmitTargets(msg.parent)
                        THEN outputs[e] \o Classify(msg) ELSE outputs[e]]
       /\ executionCount' = IF Classify(msg) = <<>> /\ isExecuteReply(msg)
                            THEN CountFrom(msg) ELSE executionCount
       /\ UNCHANGED <<state, resolved, pendingExecutions, removedBy>>

\* History: the outputs classified per parent id until its idle status.
Arrive(msg) ==
  /\ arrived' = [e \in MsgIds |->
                   IF e = msg.parent /\ e \notin idleSeen
                   THEN arrived[e] \o Classify(msg) ELSE arrived[e]]
  /\ idleSeen' = IF isStatus(msg) /\ msg.execution_state = "idle"
                    /\ msg.parent \in MsgIds
                 THEN idleSeen \cup {msg.parent} ELSE idleSeen

\* The iteration of the for-await loop leaves the loop through the catch
\* block: the socket fails, this.protocol is null, or parseMessage /
\* handleIopubMessage throws.
ListenerThrows(msg) ==
  \/ msg.type = "receive-error"
  \/ protocol = Null
  \/ ParseOutcome(msg.type) = "throw"
  \/ DisplayThrows(msg)

\* An emitOutput that publishes an output only when a record tracks it.
OutputEvents_trackedOnly(msg) ==
  IF msg.parent \in pendingExecutions
  THEN [i \in 1..Len(Classify(msg)) |-> <<"output", Classify(msg)[i], msg.parent>>]
  ELSE <<>>

\* emitOutput line 221: emit('output', output, parentMsgId), once for each
\* output classified.
OutputEvents(msg) ==
  [i \in 1..Len(Classify(msg)) |-> <<"output", Classify(msg)[i], msg.parent>>]

\* startIopubListener lines 187-191: the catch block emits 'error' unless
\* the state is dead or disconnected.
CatchEvents ==
  IF state \notin {"dead", "disconnected"} THEN <<ErrorEvent>> ELSE <<>>

\* The events one iteration of the loop emits.
ListenerEvents(msg) ==
  IF ListenerThrows(msg) THEN CatchEvents
  ELSE IF ParseOutcome(msg.type) = "null" THEN <<>>
  ELSE IF isStatus(msg) THEN StateEvents(StatusState(msg))
  ELSE OutputEvents(msg)

\* <<consumer, its socket, the frames as the broadcast they carry>>, for
\* the frames the loop took off iopub socket s.
Taken(s, msg) == <<"listener", s, msg>>

\* One iteration of the for-await loop of startIopubListener on socket s.
IopubReceive(s, msg) ==
  /\ listener[s] = "running"
  /\ msg \in Broadcasts(s)
  /\ msg \in BadBroadcasts => MayFail
  /\ faults' = IF msg \in BadBroadcasts THEN faults + 1 ELSE faults
  /\ lastReply' = Taken(s, msg)
  /\ emitted' = ListenerEvents(msg)
  /\ UNCHANGED sideVars
  /\ IF ListenerThrows(msg)
     THEN /\ listener' = [listener EXCEPT ![s] = "stopped"]
          /\ UNCHANGED <<mgrVars, removedBy, arrived, idleSeen>>
     ELSE IF ParseOutcome(msg.type) = "null"
     THEN UNCHANGED <<mgrVars, listener, removedBy, arrived, idleSeen>>
     ELSE /\ handleIopubMessage(msg)
          /\ Arrive(msg)
          /\ UNCHANGED <<process, protocol, connectionFile, connectionInfo,
                         shellSocket, iopubSocket, controlSocket, listener>>
  /\ UNCHANGED <<callVars, procStatus, fileExists, closedSockets, sockPeer,
                 shellOut, kernelGot, kernelCount>>

\* The listener on socket s takes the next broadcast off the socket.
IopubListener(s) == \E msg \in Broadcasts(s) : IopubReceive(s, msg)

\* ------------------------------------------------------------------ Next
Next ==
  \/ \E k \in Sessions :
       \/ Start(k)
       \/ Restart(k)
       \/ RestartShutdownReturn(k)
       \/ StartShutdownReturn(k)
       \/ StartPollFound(k)
       \/ StartPollTimeout(k)
       \/ StartReadFail(k)
       \/ StartReadDone(k)
       \/ StartRecvClosed(k)
       \/ KernelWriteFile(k)
       \/ ProcExit(k)
       \/ ProcError(k)
       \/ ExitCleanupTail(k)
  \/ \E k \in Sessions, kind \in ReplyKinds : StartRecvReply(k, kind)
  \/ \E s \in ShutdownCalls : Shutdown(s) \/ ShutdownReturn(s)
  \/ \E e \in MsgIds :
       \/ ExecuteNotStarted(e)
       \/ Execute(e)
       \/ ExecuteRecvClosed(e)
       \/ ExecuteReturn(e)
  \/ \E e \in MsgIds, kind \in ReplyKinds : ExecuteRecvReply(e, kind)
  \/ \E s \in Sessions : IopubListener(s)
  \/ \E i \in InterruptCalls : Interrupt(i)

Spec == Init /\ [][Next]_vars

TypeOK ==
  /\ state \in KernelStates
  /\ process \in {Null} \cup Sessions
  /\ protocol \in {Null} \cup Sessions
  /\ pendingExecutions \subseteq MsgIds
  /\ \A e \in MsgIds : Len(outputs[e]) <= MaxOutputs

\* ------------------------------------------- functions applied on their own
\* The representations handleIopubMessage looks for, in its order.
Priority ==
  <<"image/png", "image/jpeg", "text/html", "application/json", "text/plain">>

Representations == {Priority[i] : i \in DOMAIN Priority}

\* content.data of a display message: any of the representations, each
\* with an empty or a non-empty string.
DisplayData ==
  UNION {[S -> {<<>>, <<1>>}] : S \in SUBSET Representations}

\* The display_data and execute_result messages handed to the handler.
DisplayArgs ==
  {<<"display", Msg(t, Null, "", "", <<>>, d, ok, 0)>> :
     t \in {"display_data", "execute_result"}, d \in DisplayData, ok \in BOOLEAN}

Returned(value) == <<"returned", value>>
Thrown == <<"thrown">>

\* ---- parseMessage (JupyterProtocol)
MaxFrames == 7        \* frames in a multipart message handed to parseMessage

\* The frames that matter to parseMessage: the delimiter, a frame holding
\* JSON text, and a frame holding anything else.
Delimiter == "<IDS|MSG>"
JsonFrame == "{}"
OtherFrame == "x"
FrameKinds == {Delimiter, JsonFrame, OtherFrame}

FrameSeqs == UNION {[1..n -> FrameKinds] : n \in 0..MaxFrames}

\* Lines 174-180: the position of the first delimiter frame, 0 standing
\* for the -1 of the code (positions are counted from 1 here).
delimiterIndex(frames) ==
  IF \E i \in DOMAIN frames : frames[i] = Delimiter
  THEN CHOOSE i \in DOMAIN frames :
         /\ frames[i] = Delimiter
         /\ \A j \in 1..(i - 1) : frames[j] # Delimiter
  ELSE 0

\* A length test that lets through a message one frame short.
TooShort_fourFrames(frames, d) == Len(frames) < d + 4

\* Line 182, frames.length < delimiterIndex + 6 with positions from 0:
\* fewer than five frames follow the delimiter at position d.
TooShort(frames, d) == Len(frames) < d + 5

\* JavaScript values a message part can hold, written as their source
\* text.  Those of JsonValues are what JSON can express; the others are an
\* object with an undefined member, one with a NaN member, and undefined.
JsonValues == {"{}", "{a:1}", "{a:null}", "{id:1}", "{id:2}"}
JsValues == JsonValues \cup {"{a:undefined}", "{a:NaN}", "undefined"}

\* JSON.stringify(value): members that are undefined are left out, NaN is
\* written null, and undefined has no text (the result is undefined).
NoText == "undefined"
JSONstringify(value) ==
  CASE value = "{}" -> "{}"
    [] value = "{a:1}" -> "{\"a\":1}"
    [] value = "{a:null}" -> "{\"a\":null}"
    [] value = "{id:1}" -> "{\"id\":1}"
    [] value = "{id:2}" -> "{\"id\":2}"
    [] value = "{a:undefined}" -> "{}"
    [] value = "{a:NaN}" -> "{\"a\":null}"
    [] OTHER -> NoText

\* The texts JSON.parse accepts, and the value it returns for each; the
\* word undefined, the delimiter and other text make it throw.
JsonTexts == {JSONstringify(v) : v \in JsonValues}
JSONparse(text) == CHOOSE v \in JsonValues : JSONstringify(v) = text

\* JSON.parse(frames[i].toString()) returns: the frame is there and holds
\* JSON text.  A missing frame makes toString throw, other text makes
\* JSON.parse throw.
ParsesAt(frames, i) == i \in DOMAIN frames /\ frames[i] \in JsonTexts

\* Lines 207-212: the message built from the frames after the signature.
ParsedMessage(frames, d) ==
  [header |-> JSONparse(frames[d + 2]),
   parent_header |-> JSONparse(frames[d + 3]),
   metadata |-> JSONparse(frames[d + 4]),
   content |-> JSONparse(frames[d + 5]),
   buffers |-> SubSeq(frames, d + 6, Len(frames))]

ReturnedNull == <<"null">>

\* The signing keys: none (the empty string of the connection file) and
\* two different ones.
NoKey == ""
Keys == {NoKey, "k1", "k2"}

\* crypto HMAC-SHA256 of the bytes fed to it, in hex: a text determined
\* by the key and the bytes, different for different keys or bytes.
HmacHex(key, bytes) == "hmac(" \o key \o "," \o bytes \o ")"

\* A sign that feeds the first three parts only.
sign_threeParts(parts, key) ==
  IF key = NoKey THEN ""
  ELSE HmacHex(key, parts[1] \o parts[2] \o parts[3])

\* sign(parts), lines 145-152: the empty string without a key, otherwise
\* the digest of the parts fed one after the other.
sign(parts, key) ==
  IF key = NoKey THEN ""
  ELSE HmacHex(key, parts[1] \o parts[2] \o parts[3] \o parts[4])

\* Lines 193-205, whether the warning is logged: a key is set, the
\* signature frame is not empty and differs from the expected signature.
SignatureMismatch(frames, d, key) ==
  /\ key # NoKey
  /\ frames[d + 1] # ""
  /\ frames[d + 1] # sign(SubSeq(frames, d + 2, d + 5), key)

\* A verification that rejects the message on a mismatch.
Verified_rejects(frames, d, key, result) ==
  IF SignatureMismatch(frames, d, key) THEN ReturnedNull ELSE result

\* Lines 193-205, what verification leaves of the result: all of it, a
\* mismatch only calls console.warn.
Verified(frames, d, key, result) == result

\* parseMessage, lines 172-213, with this.key = key.
parseMessage(frames, key) ==
  LET d == delimiterIndex(frames) IN
  IF d = 0 \/ TooShort(frames, d) THEN ReturnedNull
  ELSE IF \A i \in (d + 2)..(d + 5) : ParsesAt(frames, i)
       THEN Verified(frames, d, key, Returned(ParsedMessage(frames, d)))
       ELSE Thrown

ParseArgs == {<<"parse", frames, NoKey>> : frames \in FrameSeqs}

ApplyParse ==
  /\ fnRes = NotApplied
  /\ fnArg[1] = "parse"
  /\ fnRes' = parseMessage(fnArg[2], fnArg[3])
  /\ UNCHANGED <<mgrVars, callVars, envVars, histVars, lastReply, emitted,
                 intPc, restarting, attempts, fnArg, kernelManager, selPc, selStart>>

\* ---- serializeMessage (JupyterProtocol)
\* The messages handed to serializeMessage: a header, a parent header (none
\* is {}), metadata, content, and attached binary buffers (none is <<>>).
Buffers == {<<>>, <<"b1">>, <<"b1", "b2">>}
Messages ==
  [header : {"{id:1}", "{id:2}"},
   parent_header : {"{}", "{id:1}"},
   metadata : {"{}", "{a:1}", "{a:undefined}"},
   content : {"{}", "{a:1}", "{a:null}", "{a:NaN}", "undefined"},
   buffers : Buffers]

\* Lines 155-158: the four parts as JSON text.
Parts(msg) ==
  <<JSONstringify(msg.header), JSONstringify(msg.parent_header),
    JSONstringify(msg.metadata), JSONstringify(msg.content)>>

\* Buffer.from(undefined) throws a TypeError.
SerializeThrows(msg) == \E i \in 1..4 : Parts(msg)[i] = NoText

\* A serializer that leaves the signature frame out.
SerializedFrames_noSignature(msg, key) == <<Delimiter>> \o Parts(msg)

\* Lines 160-169: the frames returned.
SerializedFrames(msg, key) ==
  <<Delimiter, sign(Parts(msg), key)>> \o Parts(msg)

\* serializeMessage, lines 154-170, with this.key = key.
serializeMessage(msg, key) ==
  IF SerializeThrows(msg) THEN Thrown ELSE Returned(SerializedFrames(msg, key))

SerializeArgs == {<<"serialize", msg, key>> : msg \in Messages, key \in Keys}

ApplySerialize ==
  /\ fnRes = NotApplied
  /\ fnArg[1] = "serialize"
  /\ fnRes' = serializeMessage(fnArg[2], fnArg[3])
  /\ UNCHANGED <<mgrVars, callVars, envVars, histVars, lastReply, emitted,
                 intPc, restarting, attempts, fnArg, kernelManager, selPc, selStart>>

\* The identity (routing) frames a socket puts before the delimiter.
Identities == {<<>>, <<"id1">>, <<"id1", "id2">>}

RoundTripArgs ==
  {<<"roundtrip", msg, key, ids>> :
     msg \in Messages, key \in Keys, ids \in Identities}

\* parseMessage applied to the frames serializeMessage returned, behind the
\* identity frames.
ApplyRoundTrip ==
  /\ fnRes = NotApplied
  /\ fnArg[1] = "roundtrip"
  /\ fnRes' = IF SerializeThrows(fnArg[2]) THEN Thrown
              ELSE parseMessage(fnArg[4] \o SerializedFrames(fnArg[2], fnArg[3]),
                                fnArg[3])
  /\ UNCHANGED <<mgrVars, callVars, envVars, histVars, lastReply, emitted,
                 intPc, restarting, attempts, fnArg, kernelManager, selPc, selStart>>

\* Frames as they arrive from a peer: those of a serialized message with
\* its buffers behind, signed by the peer with its own key, the signature
\* frame kept or replaced by another text; parsed with any key.
WithSignature(frames, d, signature) == [frames EXCEPT ![d + 1] = signature]

\* The signature frame received: the peer's, or what replaced it.
ReceivedSignature(kind, msg, peerKey) ==
  IF kind = "peer" THEN sign(Parts(msg), peerKey)
  ELSE IF kind = "none" THEN "" ELSE "bad"

ReceivedArgs ==
  {<<"parse",
     WithSignature(SerializedFrames(msg, peerKey) \o msg.buffers, 1,
                   ReceivedSignature(kind, msg, peerKey)),
     key>> :
     msg \in {m \in Messages : ~SerializeThrows(m)},
     peerKey \in Keys, key \in Keys, kind \in {"peer", "none", "bad"}}

\* ---- sign (JupyterProtocol)
\* The texts of a part handed to sign.
PartTexts == {"", "a", "b", "ab"}

SignArgs ==
  {<<"sign", parts, key>> : parts \in [1..4 -> PartTexts], key \in Keys}

ApplySign ==
  /\ fnRes = NotApplied
  /\ fnArg[1] = "sign"
  /\ fnRes' = Returned(sign(fnArg[2], fnArg[3]))
  /\ UNCHANGED <<mgrVars, callVars, envVars, histVars, lastReply, emitted,
                 intPc, restarting, attempts, fnArg, kernelManager, selPc, selStart>>

FunctionArgs ==
  DisplayArgs \cup ParseArgs \cup SerializeArgs \cup RoundTripArgs
    \cup ReceivedArgs \cup SignArgs

\* handleIopubMessage applied to a display message: the outputs it passes
\* to emitOutput, or the throw of JSON.parse.
ApplyDisplay ==
  /\ fnRes = NotApplied
  /\ fnArg[1] = "display"
  /\ fnRes' = IF DisplayThrows(fnArg[2]) THEN Thrown
              ELSE Returned(Classify(fnArg[2]))
  /\ UNCHANGED <<mgrVars, callVars, envVars, histVars, lastReply, emitted,
                 intPc, restarting, attempts, fnArg, kernelManager, selPc, selStart>>

FunctionInit ==
  /\ InitManager
  /\ fnArg \in FunctionArgs

FunctionNext ==
  \/ ApplyDisplay
  \/ ApplyParse
  \/ ApplySerialize
  \/ ApplyRoundTrip
  \/ ApplySign

FunctionSpec == FunctionInit /\ [][FunctionNext]_vars

\* ================================================= the poll loop of start()
\* waitForConnectionFile taken attempt by attempt, where the manager's
\* specification above takes the whole loop as one step.
maxAttempts == 50

\* A loop condition that lets one more iteration in.
AttemptsLeft_oneMore(k) == attempts[k] <= maxAttempts

\* Line 140, i < maxAttempts: i is the number of attempts made so far.
AttemptsLeft(k) == attempts[k] < maxAttempts

\* fs.access(this.connectionFile) resolves.
AccessOk == connectionFile # Null /\ connectionFile \in fileExists

\* Lines 141-148, one iteration whose fs.access rejects: the delay, then
\* the next iteration.
PollMiss(k) ==
  /\ startPc[k] = "waitFile"
  /\ AttemptsLeft(k)
  /\ ~AccessOk
  /\ attempts' = [attempts EXCEPT ![k] = @ + 1]
  /\ lastReply' = NoReply
  /\ emitted' = <<>>
  /\ UNCHANGED <<mgrVars, callVars, envVars, histVars,
                 intPc, restarting, fnArg, fnRes, kernelManager, selPc, selStart>>

\* Lines 141-144, one iteration whose fs.access resolves: the grace delay
\* is started.
PollFound(k) ==
  /\ startPc[k] = "waitFile"
  /\ AttemptsLeft(k)
  /\ AccessOk
  /\ attempts' = [attempts EXCEPT ![k] = @ + 1]
  /\ startPc' = [startPc EXCEPT ![k] = "grace"]
  /\ lastReply' = NoReply
  /\ emitted' = <<>>
  /\ UNCHANGED <<mgrVars, startAux, shutPc, shutAux, execPc, execSock,
                 exitCleanups, envVars, histVars,
                 intPc, restarting, fnArg, fnRes, kernelManager, selPc, selStart>>

\* Line 145 and start() line 118: the grace delay is over, the loop
\* returns and fs.readFile is issued on this.connectionFile.
PollReturn(k) ==
  /\ startPc[k] = "grace"
  /\ startPc' = [startPc EXCEPT ![k] = "readFile"]
  /\ startAux' = [startAux EXCEPT ![k] = connectionFile]
  /\ lastReply' = NoReply
  /\ emitted' = <<>>
  /\ UNCHANGED <<mgrVars, shutPc, shutAux, execPc, execSock,
                 exitCleanups, envVars, histVars, sideVars>>

\* Line 150: the loop is left with every attempt used: throws.
PollTimeout(k) ==
  /\ startPc[k] = "waitFile"
  /\ ~AttemptsLeft(k)
  /\ startPc' = [startPc EXCEPT ![k] = "failed"]
  /\ lastReply' = NoReply
  /\ emitted' = <<>>
  /\ UNCHANGED <<mgrVars, startAux, shutPc, shutAux, execPc, execSock,
                 exitCleanups, envVars, histVars, sideVars>>

\* The steps of the loop: timers and fs callbacks, which the event loop
\* always runs.
PollStep(k) == PollMiss(k) \/ PollFound(k) \/ PollReturn(k) \/ PollTimeout(k)

PollNext ==
  \/ Start(1)
  \/ KernelWriteFile(1)
  \/ PollMiss(1)
  \/ PollFound(1)
  \/ PollReturn(1)
  \/ PollTimeout(1)

PollSpec == Init /\ [][PollNext]_vars /\ WF_vars(PollStep(1))

\* ============================================= start() calls that overlap
\* start(), restart() and shutdown() called at any moment, a start() also
\* while an earlier one is suspended, where the manager's specification
\* above lets a start() be called only when no other is in progress.  The
\* calls are followed up to the wait for the connection file.
MaxOverlap == 3       \* start()/restart() calls that may overlap

OverlapCalls == 1..MaxOverlap

\* The k-th start()/restart() call can be made now.
CanCallOverlapping(k) ==
  /\ startPc[k] = "none"
  /\ \A j \in OverlapCalls : j < k => startPc[j] # "none"

OverlapStart(k) ==
  /\ CanCallOverlapping(k) \/ startPc[k] = "enter"
  /\ StartCalled(k)

OverlapRestart(k) ==
  /\ CanCallOverlapping(k)
  /\ RestartCalled(k)

OverlapInit ==
  /\ InitFields
  /\ InitCalls(OverlapCalls)
  /\ fnArg = NotApplied

OverlapNext ==
  \/ \E k \in OverlapCalls :
       \/ OverlapStart(k)
       \/ OverlapRestart(k)
       \/ StartShutdownReturn(k)
       \/ RestartShutdownReturn(k)
       \/ StartPollTimeout(k)
  \/ \E s \in ShutdownCalls : Shutdown(s) \/ ShutdownReturn(s)

OverlapSpec == OverlapInit /\ [][OverlapNext]_vars

\* ------------------------------------------ the editor provider's handlers
\* The manager followed here is the first one the provider constructs; a
\* manager constructed afterwards is another object, whose fields are not
\* followed.
TrackedManager == 1
OtherManager == 2

\* What lines 277-296 find for the requested path in the environments
\* list as it is when they run: no entry, an entry without ipykernel, or
\* an entry with it.
FindOutcomes == {"notFound", "noIpykernel", "ok"}

\* handleSelectEnvironment lines 276-300 when a manager existed: the
\* failure replies of lines 278-296 leave the static field as it is; with
\* a usable environment line 299 puts a new manager in the static field.
SelectValidated(c, found) ==
  /\ selPc' = [selPc EXCEPT ![c] = IF found = "ok" THEN "replaced" ELSE found]
  /\ kernelManager' = IF found = "ok" THEN OtherManager ELSE kernelManager
  /\ UNCHANGED selStart

\* handleSelectEnvironment from its call to its first await.  With a
\* manager in the static field it calls shutdown() first (lines 272-274)
\* and validates the path only after it; a shutdown() that finds no file
\* to unlink does not suspend, and the handler goes on in the same step.
\* Without a manager it validates at once, and with a usable environment
\* constructs the manager and calls start() (lines 299-300).
handleSelectEnvironment(c, found) ==
  /\ selPc[c] = "none"
  /\ \A d \in SelectCalls : d < c => selPc[d] # "none"
  /\ kernelManager \in {Null, TrackedManager}
  /\ UNCHANGED <<intPc, restarting, attempts, fnArg, fnRes>>
  /\ IF kernelManager = Null
     THEN IF found = "ok"
          THEN /\ kernelManager' = TrackedManager
               /\ selPc' = [selPc EXCEPT ![c] = "start"]
               /\ \E k \in Sessions :
                    /\ CanCallStart(k)
                    /\ StartEntered(k)
                    /\ selStart' = [selStart EXCEPT ![c] = k]
          ELSE /\ selPc' = [selPc EXCEPT ![c] = found]
               /\ lastReply' = NoReply
               /\ emitted' = <<>>
               /\ UNCHANGED <<kernelManager, selStart>>
               /\ UNCHANGED <<mgrVars, callVars, envVars, histVars>>
     ELSE /\ MayCall
          /\ ShutdownBegin
          /\ lastReply' = NoReply
          /\ emitted' = StateEvents("dead")
          /\ UNCHANGED <<executionCount, outputs, resolved,
                         startPc, startAux, execPc, execSock, exitCleanups,
                         fileExists, sockPeer, shellOut, kernelGot,
                         kernelCount, arrived, idleSeen, faults>>
          /\ IF connectionFile # Null
             THEN /\ shutPc' = [shutPc EXCEPT ![c] = "cleanup"]
                  /\ shutAux' = [shutAux EXCEPT ![c] = connectionFile]
                  /\ selPc' = [selPc EXCEPT ![c] = "shutdown"]
                  /\ UNCHANGED <<kernelManager, selStart>>
             ELSE /\ shutPc' = [shutPc EXCEPT ![c] = "done"]
                  /\ UNCHANGED shutAux
                  /\ SelectValidated(c, found)

\* The shutdown() awaited at line 273 returns; lines 276-300 follow.
SelectShutdownReturn(c, found) ==
  /\ selPc[c] = "shutdown"
  /\ ShutdownResume(shutAux[c])
  /\ shutPc' = [shutPc EXCEPT ![c] = "done"]
  /\ shutAux' = [shutAux EXCEPT ![c] = Null]
  /\ SelectValidated(c, found)
  /\ lastReply' = NoReply
  /\ emitted' = <<>>
  /\ UNCHANGED <<intPc, restarting, attempts, fnArg, fnRes>>
  /\ UNCHANGED <<state, process, shellSocket, iopubSocket, controlSocket,
                 executionCount, outputs, resolved,
                 startPc, startAux, execPc, execSock, exitCleanups,
                 procStatus, closedSockets, sockPeer, listener,
                 shellOut, kernelGot, kernelCount, arrived, idleSeen, faults>>

\* The start() awaited at line 300 settles: lines 301-317 when it
\* returned, the catch of lines 318-324 when it threw.
SelectStartReturn(c) ==
  /\ selPc[c] = "start"
  /\ startPc[selStart[c]] \in {"done", "failed"}
  /\ selPc' = [selPc EXCEPT ![c] = IF startPc[selStart[c]] = "done"
                                   THEN "succeeded" ELSE "startFailed"]
  /\ lastReply' = NoReply
  /\ emitted' = <<>>
  /\ UNCHANGED <<kernelManager, selStart>>
  /\ UNCHANGED <<intPc, restarting, attempts, fnArg, fnRes>>
  /\ UNCHANGED <<mgrVars, callVars, envVars, histVars>>

\* The 'kernel:selectEnvironmentResult' message call c has posted: its
\* success field, or none yet.
SelectEnvironmentResult(c) ==
  IF selPc[c] \in {"notFound", "noIpykernel", "startFailed"}
  THEN <<"kernel:selectEnvironmentResult", FALSE>>
  ELSE IF selPc[c] = "succeeded"
  THEN <<"kernel:selectEnvironmentResult", TRUE>>
  ELSE <<>>

\* handleRestart lines 245-255: with a manager, restart() is called.
handleRestart(k) ==
  /\ kernelManager = TrackedManager
  /\ Restart(k)

\* restart() line 324: start() is called once the shutdown() returned.
RestartStart(k) ==
  /\ startPc[k] = "enter"
  /\ StartCalled(k)

\* handleExecute lines 189-198 and execute() lines 280-282: a
\* 'kernel:execute' message handled now is answered with success false
\* at once, there being no manager, or no shell socket or codec in it.
ExecuteRefused ==
  \/ kernelManager = Null
  \/ shellSocket = Null \/ protocol = Null

SelectNext ==
  \/ \E c \in SelectCalls, found \in FindOutcomes :
       \/ handleSelectEnvironment(c, found)
       \/ SelectShutdownReturn(c, found)
  \/ \E c \in SelectCalls : SelectStartReturn(c)
  \/ \E k \in Sessions :
       \/ handleRestart(k)
       \/ RestartShutdownReturn(k)
       \/ RestartStart(k)
       \/ StartPollFound(k)
       \/ StartPollTimeout(k)
       \/ StartReadFail(k)
       \/ StartReadDone(k)
       \/ StartRecvClosed(k)
       \/ KernelWriteFile(k)
       \/ ProcExit(k)
       \/ ProcError(k)
       \/ ExitCleanupTail(k)
  \/ \E k \in Sessions, kind \in ReplyKinds : StartRecvReply(k, kind)

SelectSpec == Init /\ [][SelectNext]_vars

\* ================================================================ claims

\* C1: resolve() of a pending execution is called only when an iopub status
\* broadcast with execution_state idle arrives whose parent msg_id is that
\* execution's msg_id; nothing else resolves it.
C1_ResolvedOnlyByMatchingIdle ==
  \A e \in MsgIds : resolved[e] # "no" => resolved[e] = <<"status", "idle", e>>

\* An execute() call has returned, released by the idle status of its own
\* request, while another record was registered.
C1_Witness ==
  \E e \in MsgIds :
    /\ execPc[e] = "returned"
    /\ resolved[e] = <<"status", "idle", e>>
    /\ pendingExecutions # {}

\* C2: shutdown() releases the execute() calls whose records it clears: a
\* call awaiting its promise whose record a shutdown removed has had its
\* completion signal raised.
C2_ShutdownReleasesExecute ==
  \A e \in MsgIds :
    (execPc[e] = "await" /\ removedBy[e] = "shutdown") => resolved[e] # "no"

\* C3: the state changes only along the edges disconnected->starting,
\* starting->idle, idle->busy, busy->idle, any->dead and any->disconnected.
DefinedEdges ==
  {<<"disconnected", "starting">>, <<"starting", "idle">>,
   <<"idle", "busy">>, <<"busy", "idle">>}
  \cup {<<s, "dead">> : s \in KernelStates}
  \cup {<<s, "disconnected">> : s \in KernelStates}

C3_OnlyDefinedEdges ==
  [][state' # state => <<state, state'>> \in DefinedEdges]_vars

\* C4: once the state is dead, no step moves it to idle or busy.
C4_DeadNeverIdleOrBusy ==
  [][state = "dead" => state' \notin {"idle", "busy"}]_vars

\* C5: shutdown() leaves state dead with the three sockets and the process
\* null; called again on the manager it left, it changes nothing and
\* completes in that same state.
SocketsAndProcessNull ==
  /\ shellSocket = Null
  /\ iopubSocket = Null
  /\ controlSocket = Null
  /\ process = Null

ShutDown ==
  /\ state = "dead"
  /\ SocketsAndProcessNull
  /\ connectionFile = Null
  /\ connectionInfo = Null
  /\ protocol = Null
  /\ pendingExecutions = {}

C5_ShutdownIdempotent ==
  [][\A s \in ShutdownCalls :
       /\ (shutPc[s] = "none" /\ shutPc'[s] = "cleanup") =>
            /\ state' = "dead"
            /\ SocketsAndProcessNull'
            /\ ShutDown => UNCHANGED mgrVars
       /\ (shutPc[s] = "cleanup" /\ shutPc'[s] = "done") =>
            /\ UNCHANGED <<state, shellSocket, iopubSocket, controlSocket, process>>
            /\ (state = "dead" /\ SocketsAndProcessNull
                  /\ connectionFile \in {Null, shutAux[s]})
                 => ShutDown'
  ]_vars

\* A started kernel was shut down twice, both calls have completed, and
\* the manager is dead with every field null.
C5_Witness ==
  /\ \E k \in Sessions : startPc[k] = "done"
  /\ \A s \in {1, 2} : shutPc[s] = "done"
  /\ ShutDown

\* C6 as stated: every execute() call that has sent its request and has
\* not yet returned has its record in pendingExecutions.
C6_RecordWhileInFlight ==
  \A e \in MsgIds : execPc[e] \in {"recv", "await"} => e \in pendingExecutions

\* C6 amended: an execute() call that has sent its request and has not yet
\* returned has its record in pendingExecutions exactly until the idle
\* status of its request is handled or a cleanup() clears the Map; from
\* then on it has none, and a record is never of a call that was not made.
C6_RecordUntilIdleOrCleanup ==
  /\ \A e \in MsgIds :
       execPc[e] \in {"recv", "await"} =>
         (e \in pendingExecutions <=> removedBy[e] = "none")
  /\ \A e \in pendingExecutions : execPc[e] # "none"

\* Two calls in flight: one still has its record, the record of the other
\* is gone (its idle status was handled) and it has not returned yet.
C6_Witness ==
  \E e, f \in MsgIds :
    /\ execPc[e] = "await" /\ e \notin pendingExecutions /\ removedBy[e] = "idle"
    /\ execPc[f] \in {"recv", "await"} /\ f \in pendingExecutions

\* C7: start() completes (and sets idle) only on a kernel_info_reply: when
\* the message its handshake took off the shell socket is anything else,
\* the call has failed.
C7_StartNeedsKernelInfoReply ==
  (lastReply # NoReply /\ lastReply[1] = "start"
     /\ lastReply[3] # "kernel_info_reply")
    => (startPc[lastReply[2]] = "failed" /\ state # "idle")

\* C8: at most one shell request is outstanding (sent, reply not yet
\* received) on a shell socket at any time.
C8_OneOutstandingShellRequest ==
  \A s \in Sessions : Len(shellOut[s]) <= 1

\* C9: when execute() has taken an execute_reply off the shell socket, the
\* manager's execution counter is the reply's execution_count.
C9_CounterFromShellReply ==
  (lastReply # NoReply /\ lastReply[1] = "execute"
     /\ lastReply[3] = "execute_reply")
    => executionCount = lastReply[4]

IsOutputEvent(ev) == ev[1] = "output"

\* The step just taken was an iteration of the iopub listener.
ListenerStep == lastReply # NoReply /\ lastReply[1] = "listener"

C12_NoOutputWhenDead ==
  [][(ListenerStep' /\ state = "dead") =>
       /\ SelectSeq(emitted', IsOutputEvent) = <<>>
       /\ outputs' = outputs
  ]_vars

\* The first representation present in data, in priority order.
FirstPresent(data) ==
  Priority[CHOOSE i \in DOMAIN Priority :
             /\ Priority[i] \in DOMAIN data
             /\ \A j \in 1..(i - 1) : Priority[j] \notin DOMAIN data]

\* type and mimeType of the output for a representation.
KindFor(mime) ==
  IF mime = "text/plain" THEN <<"result", "">> ELSE <<"display", mime>>

\* C13: a display_data/execute_result message yields no output when no
\* representation is present, and otherwise exactly one output, the one for
\* the first representation present in priority order.
C13_FirstPresentRepresentation ==
  (fnRes # NotApplied /\ fnArg[1] = "display") =>
    /\ fnRes[1] = "returned"
    /\ IF DOMAIN fnArg[2].data = {}
       THEN fnRes[2] = <<>>
       ELSE /\ Len(fnRes[2]) = 1
            /\ <<fnRes[2][1].type, fnRes[2][1].mimeType>>
                 = KindFor(FirstPresent(fnArg[2].data))

\* An 'error' event is among the events of a step.
ErrorEmitted(evs) == \E i \in DOMAIN evs : evs[i] = ErrorEvent

\* C14: when a subprocess that was not killed exits, and when the iopub
\* listener leaves its loop through a failure (its socket not closed), the
\* state is set to dead and an 'error' event is emitted.
C14_ExitAndTransportFailure ==
  [][/\ \A f \in Sessions :
          (procStatus[f] \in {"booting", "running"} /\ procStatus'[f] = "exited")
            => (state' = "dead" /\ ErrorEmitted(emitted'))
     /\ \A s \in Sessions :
          (listener[s] = "running" /\ listener'[s] = "stopped"
             /\ s \notin closedSockets')
            => (state' = "dead" /\ ErrorEmitted(emitted'))
  ]_vars


\* No session is active: none was started or the last one was shut down
\* (no process), or the subprocess has exited.
NoActiveSession == process = Null \/ procStatus[process] = "exited"

\* C15: a call of execute() or interrupt() made while no session is active
\* fails at once by throwing: it neither waits for a reply nor returns
\* normally with nothing done.
C15_NoSessionFailsFast ==
  [][NoActiveSession =>
       /\ \A i \in InterruptCalls :
            intPc[i] = "none" /\ intPc'[i] # "none" => intPc'[i] = "thrown"
       /\ \A e \in MsgIds :
            execPc[e] = "none" /\ execPc'[e] # "none" => execPc'[e] = "thrown"]_vars


\* handleExecute lines 200-216: the 'kernel:executeResult' message posted
\* for the request whose execute() call is e: success with the msgId and
\* the outputs once execute() returned, failure once it threw, and none
\* while the await of execute() has not settled.
NoResult == <<>>
ExecuteResult(e) ==
  IF execPc[e] = "returned" THEN <<"kernel:executeResult", TRUE, e, outputs[e]>>
  ELSE IF execPc[e] = "thrown" THEN <<"kernel:executeResult", FALSE>>
  ELSE NoResult

\* The promise awaited by execute() e can no longer settle: resolve() is
\* reachable only through the record in the Map, and the record is gone.
NeverSettles(e) ==
  execPc[e] = "await" /\ e \notin pendingExecutions /\ resolved[e] = "no"

\* C16: every 'kernel:execute' request is answered by a
\* 'kernel:executeResult' message: no request is left whose execute() can
\* no longer settle and for which no result has been posted.
C16_EveryExecuteAnswered ==
  \A e \in MsgIds : NeverSettles(e) => ExecuteResult(e) # NoResult


\* The last statement of the shutdown() call s runs in this step: the
\* step of the call itself when cleanup() found no file to unlink and ran
\* to its end without suspending (the caller's continuation is then a
\* microtask that precedes every I/O completion), and otherwise the step
\* that resumes it after fs.unlink settled.
ShutdownFinishes(s) ==
  \/ shutPc[s] = "none" /\ shutPc'[s] # "none" /\ shutAux'[s] = Null
  \/ shutPc[s] = "cleanup" /\ shutAux[s] # Null /\ shutPc'[s] = "done"

\* The same for the shutdown() awaited by start() or restart() call k.
InnerShutdownFinishes(k) ==
  \/ /\ startPc[k] \notin {"preShutdown", "restartShutdown"}
     /\ startPc'[k] \in {"preShutdown", "restartShutdown"}
     /\ startAux'[k] = Null
  \/ /\ startPc[k] \in {"preShutdown", "restartShutdown"}
     /\ startAux[k] # Null
     /\ startPc'[k] # startPc[k]

C18_BoundedPoll ==
  /\ [](\A k \in Sessions : attempts[k] <= maxAttempts)
  /\ [][\A k \in Sessions :
         /\ startPc[k] = "waitFile" /\ startPc'[k] = "failed"
              => attempts[k] = maxAttempts
         /\ startPc[k] = "waitFile" /\ attempts'[k] # attempts[k]
              => /\ attempts'[k] = attempts[k] + 1
                 /\ startPc'[k] = (IF AccessOk THEN "grace" ELSE "waitFile")
         /\ startPc[k] = "grace" /\ startPc'[k] # "grace"
              => startPc'[k] = "readFile" /\ attempts'[k] = attempts[k]]_vars
  /\ \A k \in Sessions :
       /\ (startPc[k] = "waitFile") ~> (startPc[k] \in {"readFile", "failed"})
       /\ (startPc[k] = "waitFile") ~> (k \in fileExists \/ startPc[k] = "failed")

\* start() has failed with the timeout after maxAttempts checks, the file
\* never having been written.
C18_Witness ==
  startPc[1] = "failed" /\ attempts[1] = maxAttempts /\ 1 \notin fileExists


\* The restart() that made the start() call k returns successfully in the
\* step just taken.
RestartReturned(k) ==
  /\ startPc[k] = "done"
  /\ lastReply # NoReply /\ lastReply[1] = "start" /\ lastReply[2] = k
  /\ Len(lastReply) = 5 /\ lastReply[5] = "restart"

\* C19: when restart() returns successfully the state is idle, the Map of
\* pending executions is empty, and the process, the three sockets, the
\* connection-file path, the descriptor and the codec are those allocated
\* by its own start(), none of them of a session before.
C19_RestartIsFreshSession ==
  \A k \in Sessions :
    RestartReturned(k) =>
      /\ state = "idle"
      /\ pendingExecutions = {}
      /\ process = k
      /\ shellSocket = k /\ iopubSocket = k /\ controlSocket = k
      /\ connectionFile = k /\ connectionInfo = k /\ protocol = k


\* The number of frames after the first delimiter of a frame sequence that
\* has one.
HasDelimiter(frames) == \E i \in DOMAIN frames : frames[i] = Delimiter
FramesAfterDelimiter(frames) ==
  Len(frames) - CHOOSE i \in DOMAIN frames :
                  /\ frames[i] = Delimiter
                  /\ \A j \in DOMAIN frames : frames[j] = Delimiter => i <= j

\* C20: parseMessage returns null, without throwing, for every frame
\* sequence that has no delimiter frame or fewer than five frames after
\* its first delimiter, and it returns a message only for sequences with
\* at least five frames after the first delimiter.
C20_ParseNullOnShortFrames ==
  (fnArg # NotApplied /\ fnArg[1] = "parse" /\ fnRes # NotApplied) =>
    LET frames == fnArg[2] IN
    /\ (~HasDelimiter(frames) \/ FramesAfterDelimiter(frames) < 5)
         => fnRes = ReturnedNull
    /\ fnRes[1] = "returned"
         => HasDelimiter(frames) /\ FramesAfterDelimiter(frames) >= 5

\* parseMessage has returned null for a sequence with identity frames, a
\* delimiter and exactly four frames after it.
C20_Witness ==
  /\ fnArg # NotApplied /\ fnArg[1] = "parse"
  /\ fnRes = ReturnedNull
  /\ HasDelimiter(fnArg[2]) /\ FramesAfterDelimiter(fnArg[2]) = 4
  /\ fnArg[2][1] # Delimiter


\* A message whose four parts are values JSON can express.
WellFormed(msg) ==
  /\ msg.header \in JsonValues /\ msg.parent_header \in JsonValues
  /\ msg.metadata \in JsonValues /\ msg.content \in JsonValues

\* C21: for every well-formed message, parseMessage applied to the frames
\* of serializeMessage, with or without identity frames before the
\* delimiter, returns a message whose header, parent_header, metadata and
\* content are those of the original.
C21_RoundTrip ==
  (fnArg # NotApplied /\ fnArg[1] = "roundtrip" /\ fnRes # NotApplied
     /\ WellFormed(fnArg[2])) =>
    /\ fnRes[1] = "returned"
    /\ fnRes[2].header = fnArg[2].header
    /\ fnRes[2].parent_header = fnArg[2].parent_header
    /\ fnRes[2].metadata = fnArg[2].metadata
    /\ fnRes[2].content = fnArg[2].content

\* A well-formed message with a parent header and non-empty content has
\* gone through both functions, signed, behind two identity frames.
C21_Witness ==
  /\ fnArg # NotApplied /\ fnArg[1] = "roundtrip" /\ fnRes # NotApplied
  /\ WellFormed(fnArg[2])
  /\ fnArg[2].parent_header = "{id:1}" /\ fnArg[2].content = "{a:1}"
  /\ fnArg[3] # NoKey /\ Len(fnArg[4]) = 2
  /\ fnRes[1] = "returned"


\* The texts tried as signature frame of a frame sequence: none, one that
\* no key yields, and the signature of its four parts under every key.
SignatureFrames(frames, d) ==
  {"", "bad"} \cup {sign(SubSeq(frames, d + 2, d + 5), k) : k \in Keys}

\* C22: what parseMessage returns for a frame sequence with five frames
\* after its delimiter is what it returns for every sequence that differs
\* from it in the signature frame only, under every key and under none:
\* the same header, parent_header, metadata, content and buffers, or the
\* same throw.
C22_SignatureDoesNotMatter ==
  (fnArg # NotApplied /\ fnArg[1] = "parse" /\ fnRes # NotApplied
     /\ delimiterIndex(fnArg[2]) # 0
     /\ ~TooShort(fnArg[2], delimiterIndex(fnArg[2]))) =>
    LET frames == fnArg[2]
        d == delimiterIndex(frames)
    IN \A sig \in SignatureFrames(frames, d), key \in Keys :
         parseMessage(WithSignature(frames, d, sig), key) = fnRes

\* A message with buffers whose signature frame matches no key has been
\* parsed with a key configured, and returned.
C22_Witness ==
  /\ fnArg # NotApplied /\ fnArg[1] = "parse" /\ fnRes # NotApplied
  /\ fnArg[3] # NoKey
  /\ Len(fnArg[2]) = 8 /\ fnArg[2][1] = Delimiter /\ fnArg[2][2] = "bad"
  /\ SignatureMismatch(fnArg[2], 1, fnArg[3])
  /\ fnRes[1] = "returned" /\ fnRes[2].buffers = <<"b1", "b2">>


\* C23: serializeMessage returns the delimiter, the signature, the four
\* serialized parts and then the buffers attached to the message in their
\* order, the signature being that of the four parts after it.
C23_WireOrderWithBuffers ==
  (fnArg # NotApplied /\ fnArg[1] = "serialize" /\ fnRes # NotApplied
     /\ fnRes[1] = "returned") =>
    LET msg == fnArg[2]
        frames == fnRes[2]
    IN /\ Len(frames) >= 6
       /\ frames[1] = Delimiter
       /\ SubSeq(frames, 3, 6) = Parts(msg)
       /\ frames[2] = sign(SubSeq(frames, 3, 6), fnArg[3])
       /\ SubSeq(frames, 7, Len(frames)) = msg.buffers


\* sign has been applied to four parts.
SignApplied == fnArg # NotApplied /\ fnArg[1] = "sign" /\ fnRes # NotApplied

\* The four parts with part i replaced by another text.
OnePartChanged(parts) ==
  {[parts EXCEPT ![i] = t] : i \in 1..4, t \in PartTexts} \ {parts}

\* C24 as stated: signing the same parts again gives the same signature,
\* changing any one part changes it, under every key and under none, and
\* without a key it is the empty string.
C24_SignDeterministicAndSensitive ==
  SignApplied =>
    /\ sign(fnArg[2], fnArg[3]) = fnRes[2]
    /\ \A other \in OnePartChanged(fnArg[2]) : sign(other, fnArg[3]) # fnRes[2]
    /\ fnArg[3] = NoKey => fnRes[2] = ""

\* C24 amended: signing the same parts again gives the same signature;
\* with a key configured, changing any one part changes it; without a key
\* it is the empty string whatever the parts.
C24_SensitiveWithKey ==
  SignApplied =>
    /\ sign(fnArg[2], fnArg[3]) = fnRes[2]
    /\ fnArg[3] # NoKey =>
         \A other \in OnePartChanged(fnArg[2]) : sign(other, fnArg[3]) # fnRes[2]
    /\ fnArg[3] = NoKey =>
         /\ fnRes[2] = ""
         /\ \A other \in OnePartChanged(fnArg[2]) : sign(other, fnArg[3]) = ""

\* Four parts have been signed with a key, the last one not empty.
C24_Witness ==
  /\ SignApplied /\ fnArg[3] # NoKey
  /\ fnArg[2] = <<"a", "b", "", "ab">>
  /\ fnRes[2] # ""


\* The step taken is the listener handling the idle status broadcast whose
\* parent msg_id is e.
OwnIdleHandled(e) ==
  /\ ListenerStep'
  /\ isStatus(lastReply'[3])
  /\ lastReply'[3].execution_state = "idle"
  /\ lastReply'[3].parent = e

\* C25: a record leaves the Map of pending executions only in the step in
\* which the listener handles the idle status broadcast whose parent
\* msg_id is the record's msg_id; neither shutdown(), nor the process exit,
\* nor another execution's idle removes it.
C25_RemovedOnlyByOwnIdle ==
  [][\A e \in MsgIds :
       (e \in pendingExecutions /\ e \notin pendingExecutions')
         => OwnIdleHandled(e)]_vars


\* C26: the iopub listener keeps taking broadcasts until shutdown: it does
\* not stop in a step that leaves the state starting, idle or busy; a
\* broadcast that cannot be parsed or handled is passed over.
C26_ListenerDrainsUntilShutdown ==
  [][\A s \in Sessions :
       (listener[s] = "running" /\ listener'[s] # "running")
         => state' \notin {"starting", "idle", "busy"}]_vars


\* C27: the Map of pending executions and the execution counter change
\* only in steps of the iopub listener: no step of execute(), shutdown(),
\* the exit handler or another call adds to, removes from or clears the Map
\* or writes the counter.
C27_OnlyListenerMutates ==
  [][(pendingExecutions' # pendingExecutions
        \/ executionCount' # executionCount) => ListenerStep']_vars


IsStateChange(ev) == ev[1] = "stateChange"

\* C28: a step emits a 'stateChange' event exactly when it changes the
\* state, and the event carries the new state; a step that leaves the
\* state as it is, a setState with the current value included, emits none.
\* Hence consecutive stateChange events differ and the last one emitted is
\* the current state.
C28_StateChangeIffChanged ==
  [][SelectSeq(emitted', IsStateChange) =
       (IF state' # state THEN << <<"stateChange", state'>> >> ELSE <<>>)]_vars

\* shutdown() called on a started session has just emitted the change to
\* dead.
C28_Witness ==
  /\ emitted = << <<"stateChange", "dead">> >>
  /\ state = "dead"
  /\ \E s \in ShutdownCalls : shutPc[s] = "cleanup"
  /\ \E k \in Sessions : startPc[k] = "done"


\* interrupt() call i is made in this step.
InterruptCalled(i) == intPc[i] = "none" /\ intPc'[i] # "none"

\* C29: a call of interrupt() ends in the step that makes it, having done
\* nothing, sent the signal and the request, or thrown; it never waits for
\* a reply on the control socket, and it leaves the state, the Map of
\* pending executions, their promises and outputs, and the execution
\* counter as they were.
C29_InterruptFireAndForget ==
  [][\A i \in InterruptCalls :
       InterruptCalled(i) =>
         /\ intPc'[i] \in {"nothing done", "sent", "thrown"}
         /\ state' = state
         /\ pendingExecutions' = pendingExecutions
         /\ resolved' = resolved /\ outputs' = outputs
         /\ executionCount' = executionCount
         /\ execPc' = execPc]_vars

\* interrupt() has sent its signal and request while an execute() is
\* waiting, its record still in the Map.
C29_Witness ==
  /\ \E i \in InterruptCalls : intPc[i] = "sent"
  /\ \E e \in MsgIds :
       execPc[e] \in {"recv", "await"} /\ e \in pendingExecutions
                                         /\ resolved[e] = "no"


\* The 'exit' event of process f, killed by a shutdown(), fires in this
\* step, after a later start() has spawned the process of a new session.
StaleExit(f) ==
  /\ procStatus[f] = "killed" /\ procStatus'[f] = "exited"
  /\ process # Null /\ process # f

\* C30: the exit event of a process killed by shutdown() that fires after
\* the next start() has begun leaves the new session alone: the state is
\* not set to dead, no unlink of the new connection file is started, and
\* the codec, the descriptor and the Map of pending executions stay.
C30_StaleExitIgnored ==
  [][\A f \in Sessions :
       StaleExit(f) =>
         /\ state' = state
         /\ exitCleanups' = exitCleanups
         /\ protocol' = protocol /\ connectionInfo' = connectionInfo
         /\ pendingExecutions' = pendingExecutions]_vars


\* A socket field holds an open socket.
OpenSocket(sock) == sock # Null /\ sock \notin closedSockets

\* C31: whenever the state is idle or busy the session is usable: the
\* subprocess is there and has not exited, the codec and the connection
\* descriptor are present, and the three sockets are open.
C31_IdleBusyUsable ==
  state \in {"idle", "busy"} =>
    /\ process # Null /\ procStatus[process] \in {"booting", "running"}
    /\ protocol # Null /\ connectionInfo # Null
    /\ OpenSocket(shellSocket) /\ OpenSocket(iopubSocket)
    /\ OpenSocket(controlSocket)


\* C32: every subprocess the manager spawned and has not killed is the
\* one it references: at most one is alive at any time, whatever the
\* interleaving of start(), restart() and shutdown() calls.
C32_AtMostOneUnkilled ==
  \A p \in DOMAIN procStatus :
    procStatus[p] \in {"booting", "running"} => process = p


\* C33: an execute() call that has thrown left no record behind: the map
\* of pending executions has no entry for its msg_id.
C33_ThrownLeavesNoRecord ==
  \A e \in MsgIds : execPc[e] = "thrown" => e \notin pendingExecutions


\* The handleSelectEnvironment call c that shut the manager down posts
\* its failure reply in this step.
SelectFailsAfterShutdown(c) ==
  /\ selPc[c] \in {"none", "shutdown"}
  /\ selPc'[c] \in {"notFound", "noIpykernel"}
  /\ shutPc'[c] = "done"

\* C34: handleSelectEnvironment shuts the manager down before it
\* validates the path: when it then replies with a failure, the static
\* field still references the manager it shut down, that manager is in
\* state dead, and an execute() called on it next throws at once.
C34_FailedSelectLeavesDeadManager ==
  [][\A c \in SelectCalls :
       SelectFailsAfterShutdown(c) =>
         /\ SelectEnvironmentResult(c)' = <<"kernel:selectEnvironmentResult", FALSE>>
         /\ kernelManager' = TrackedManager
         /\ state' = "dead"
         /\ ExecuteRefused']_vars

====
